---------------------------- MODULE Spec2Model ----------------------------
(***************************************************************************)
(* Workflow engine and task dependency graph of the MOPC expropriation     *)
(* case-management backend (backend/src/workflow).                         *)
(*                                                                         *)
(* The persisted rows are the state: cases (Expediente), the transition    *)
(* log (WorkflowTransition), tasks (Task), the many-to-many depends-on     *)
(* links of a task (Task.depende_de), the explicit edge table              *)
(* (TaskDependency) and the notification table.  Every API handler is one  *)
(* action; `response` is the HTTP response of the last handled request.    *)
(* Two requests that overlap in time are modelled by splitting a handler   *)
(* at the point where it has loaded its rows (`requests`).                 *)
(***************************************************************************)
EXTENDS Integers, Sequences, FiniteSets, Bags, TLC

VARIABLES
    tareas,             \* Task rows: id -> fields
    depende_de,         \* Task.depende_de: id -> set of ids the task depends on
    task_dependencies,  \* TaskDependency rows: set of <<task, depends_on>>
    expedientes,        \* Expediente rows: id -> fields
    transiciones,       \* WorkflowTransition rows in creation order
    notifications,      \* Notification rows created so far (a bag of rows)
    response,           \* response of the last handled request
    requests,           \* requests in flight: id -> the user, the task and
                        \* the case row the handler's get_object() has loaded
    documentos          \* Document rows in creation order (id = position)

vars == <<tareas, depende_de, task_dependencies, expedientes, transiciones,
          notifications, response, requests, documentos>>

None == "None"          \* Python None / SQL NULL
Absent == "Absent"      \* optional request parameter not given

---------------------------------------------------------------------------
(* Bounds of the model. *)

MaxRows == 3            \* TaskDependency rows
MaxLinks == 3           \* depende_de links over all tasks
MaxNotifications == 2   \* Notification rows
MaxTransitions == 2     \* WorkflowTransition rows
MaxDocuments == 6       \* Document rows

---------------------------------------------------------------------------
(* Reference data: departments, workflow states, users. *)

Departments == {"D1", "D2"}

Department ==
    [d \in Departments |->
        IF d = "D1" THEN [code |-> "RECEPCION", workflow_order |-> 1, is_active |-> TRUE]
                    ELSE [code |-> "JURIDICO", workflow_order |-> 2, is_active |-> TRUE]]

WorkflowStates == {"S1", "S2", "S3", "S4", "S5"}

WorkflowState ==
    [s \in WorkflowStates |->
        CASE s = "S1" -> [name |-> "Iniciado", order |-> 1, is_final |-> FALSE]
          [] s = "S2" -> [name |-> "En Revisión", order |-> 2, is_final |-> FALSE]
          [] s = "S3" -> [name |-> "Completado", order |-> 3, is_final |-> TRUE]
          [] s = "S4" -> [name |-> "Rechazado", order |-> 4, is_final |-> TRUE]
          [] s = "S5" -> [name |-> "En Apelación", order |-> 5, is_final |-> FALSE]]

\* str.lower() on the state names, and the names that contain 'revisión'.
lower(name) ==
    CASE name = "Iniciado" -> "iniciado"
      [] name = "En Revisión" -> "en revisión"
      [] name = "Completado" -> "completado"
      [] name = "Rechazado" -> "rechazado"
      [] name = "En Apelación" -> "en apelación"

contains_revision(name) == name \in {"en revisión"}

Users == {"U1", "U2"}

User ==
    [u \in Users |->
        IF u = "U1"
        THEN [is_superuser |-> TRUE, role |-> "admin", department |-> "D1",
              is_active |-> TRUE, expediente_permission |-> TRUE]
        ELSE [is_superuser |-> FALSE, role |-> "analista", department |-> "D2",
              is_active |-> TRUE, expediente_permission |-> TRUE]]

HeadRoles == {"department_head", "supervisor", "admin"}

Expedientes == {"E1", "E2"}

RequestIds == {"R1", "R2"}

\* A request slot in which no handler is running.
NoRequest == [user |-> None, pk |-> None, expediente |-> None]

TaskIds == {"T1", "T2", "T3", "T4"}

\* The order in which a queryset over tasks is iterated.
TaskOrder == <<"T1", "T2", "T3", "T4">>

TASK_STATUS == {"pendiente", "en_progreso", "completada", "cancelada", "bloqueada"}

EXPEDIENTE_STATES ==
    {"iniciado", "en_revision", "aprobado", "rechazado", "completado", "en_apelacion"}

---------------------------------------------------------------------------
(* Helpers over the rows. *)

InOrder(S) == SelectSeq(TaskOrder, LAMBDA t : t \in S)

Links(dd) == {<<t, d>> \in TaskIds \X TaskIds : d \in dd[t]}

Response(op, status, detail) ==
    [op |-> op, status |-> status, detail |-> detail]

---------------------------------------------------------------------------
(* TaskViewSet: visibility and permission helpers. *)

TaskViewSet_get_queryset(user) ==
    IF User[user].is_superuser THEN TaskIds
    ELSE IF User[user].role \in HeadRoles
    THEN {t \in TaskIds : tareas[t].departamento = User[user].department}
    ELSE {t \in TaskIds : \/ tareas[t].usuario_asignado = user
                          \/ tareas[t].departamento = User[user].department}

can_complete_task(user, t) ==
    IF User[user].is_superuser THEN TRUE
    ELSE IF User[user].role \in HeadRoles
    THEN User[user].department = tareas[t].departamento
    ELSE tareas[t].usuario_asignado = user

can_assign_task(user, t) ==
    IF User[user].is_superuser THEN TRUE
    ELSE IF User[user].role \in HeadRoles
    THEN User[user].department = tareas[t].departamento
    ELSE tareas[t].usuario_asignado = user

can_modify_dependencies(user, t) ==
    IF User[user].is_superuser THEN TRUE
    ELSE IF User[user].role \in HeadRoles
    THEN User[user].department = tareas[t].departamento
    ELSE tareas[t].usuario_asignado = user

---------------------------------------------------------------------------
(* The cycle check: a depth-first walk over depende_de from `dependency`,   *)
(* sharing one visited set; a node met a second time answers True.         *)

RECURSIVE check_dependencies(_, _, _, _), check_dependencies_loop(_, _, _, _)

check_dependencies(dd, task, current_task, visited) ==
    IF current_task \in visited
    THEN [result |-> TRUE, visited |-> visited]
    ELSE check_dependencies_loop(dd, task, InOrder(dd[current_task]),
                                 visited \cup {current_task})

check_dependencies_loop(dd, task, deps, visited) ==
    IF deps = <<>>
    THEN [result |-> FALSE, visited |-> visited]
    ELSE IF Head(deps) = task
    THEN [result |-> TRUE, visited |-> visited]
    ELSE LET r == check_dependencies(dd, task, Head(deps), visited)
         IN  IF r.result THEN r
             ELSE check_dependencies_loop(dd, task, Tail(deps), r.visited)

would_create_circular_dependency(dd, task, dependency) ==
    check_dependencies(dd, task, dependency, {}).result

---------------------------------------------------------------------------
(* TaskViewSet.add_dependency: POST tasks/<pk>/add_dependency/ *)

add_dependency_outcome(user, pk, depends_on_id) ==
    IF pk \notin TaskViewSet_get_queryset(user) THEN <<404, "not_found">>
    ELSE IF ~can_modify_dependencies(user, pk) THEN <<403, "permission_denied">>
    ELSE IF depends_on_id = None THEN <<400, "depends_on_required">>
    ELSE IF depends_on_id \notin TaskIds THEN <<400, "depends_on_not_found">>
    ELSE IF tareas[pk].expediente # tareas[depends_on_id].expediente
    THEN <<400, "cross_case">>
    ELSE IF would_create_circular_dependency(depende_de, pk, depends_on_id)
    THEN <<400, "circular">>
    ELSE <<200, "added">>

add_dependency(user, pk, depends_on_id) ==
    LET out == add_dependency_outcome(user, pk, depends_on_id)
        rows == IF out[1] = 200
                THEN task_dependencies \cup {<<pk, depends_on_id>>}
                ELSE task_dependencies
    IN  /\ Cardinality(rows) <= MaxRows
        /\ task_dependencies' = rows
        /\ response' = Response("add_dependency", out[1], out[2])
        /\ UNCHANGED <<tareas, depende_de, expedientes, transiciones, notifications, requests,
                   documentos>>

---------------------------------------------------------------------------
(* Task.can_be_started and Task.mark_as_completed. *)

can_be_started(ts, dd, t) ==
    ~(\E d \in dd[t] : ts[d].estado \in {"pendiente", "en_progreso"})

mark_as_completed(ts, t, usuario, resultado) ==
    [ts EXCEPT ![t].estado = "completada",
               ![t].fecha_completacion = "now",
               ![t].resultado = resultado,
               ![t].usuario_asignado = usuario]

---------------------------------------------------------------------------
(* TaskSerializer: field validation and update (PUT/PATCH tasks/<pk>/).    *)
(* `data` is the request body: a function from the keys present, among     *)
(* estado, usuario_asignado and depende_de, to their values.               *)

validate_usuario_asignado(instance, value) ==
    IF value # None /\ tareas[instance].departamento # None
    THEN User[value].department = tareas[instance].departamento
    ELSE TRUE

RECURSIVE validate_depende_de_loop(_, _)
validate_depende_de_loop(instance, value) ==
    IF value = <<>> THEN "ok"
    ELSE IF Head(value) = instance THEN "self_dependency"
    ELSE IF would_create_circular_dependency(depende_de, instance, Head(value))
    THEN "circular"
    ELSE validate_depende_de_loop(instance, Tail(value))

validate_depende_de(instance, value) ==
    IF value # {} THEN validate_depende_de_loop(instance, InOrder(value)) ELSE "ok"

TaskSerializer_errors(instance, data) ==
    IF "usuario_asignado" \in DOMAIN data
       /\ ~validate_usuario_asignado(instance, data.usuario_asignado)
    THEN "usuario_asignado_department"
    ELSE IF "depende_de" \in DOMAIN data
    THEN validate_depende_de(instance, data.depende_de)
    ELSE "ok"

TaskSerializer_update(ts, instance, data) ==
    LET completing == /\ "estado" \in DOMAIN data
                      /\ data.estado = "completada"
                      /\ ts[instance].estado # "completada"
        cancelling == "estado" \in DOMAIN data /\ data.estado = "cancelada"
    IN  [ts EXCEPT
            ![instance].estado =
                IF "estado" \in DOMAIN data THEN data.estado ELSE @,
            ![instance].fecha_completacion =
                IF completing THEN "now" ELSE @,
            ![instance].resultado =
                IF completing THEN "Tarea completada automáticamente" ELSE @,
            ![instance].usuario_asignado =
                IF cancelling THEN None
                ELSE IF "usuario_asignado" \in DOMAIN data THEN data.usuario_asignado
                ELSE @]

task_update(user, pk, data) ==
    LET err == IF pk \notin TaskViewSet_get_queryset(user) THEN "not_found"
               ELSE TaskSerializer_errors(pk, data)
        dd  == IF err = "ok" /\ "depende_de" \in DOMAIN data
               THEN [depende_de EXCEPT ![pk] = data.depende_de]
               ELSE depende_de
    IN  /\ Cardinality(Links(dd)) <= MaxLinks
        /\ depende_de' = dd
        /\ tareas' = IF err = "ok" THEN TaskSerializer_update(tareas, pk, data)
                      ELSE tareas
        /\ response' = Response("task_update",
                                 IF err = "ok" THEN 200
                                 ELSE IF err = "not_found" THEN 404 ELSE 400, err)
        /\ UNCHANGED <<task_dependencies, expedientes, transiciones, notifications, requests,
                   documentos>>

---------------------------------------------------------------------------
(* TaskViewSet.assign: POST tasks/<pk>/assign/ *)

task_assignment_notification(ts, t) ==
    IF ts[t].usuario_asignado # None
    THEN {[user |-> ts[t].usuario_asignado, expediente |-> ts[t].expediente,
           title |-> "Nueva Tarea Asignada", task |-> t]}
    ELSE {}

assign_outcome(user, pk, user_id) ==
    IF pk \notin TaskViewSet_get_queryset(user) THEN <<404, "not_found">>
    ELSE IF ~can_assign_task(user, pk) THEN <<403, "permission_denied">>
    ELSE IF user_id = None THEN <<400, "user_id_required">>
    ELSE IF user_id \notin Users \/ ~User[user_id].is_active
    THEN <<400, "user_not_found">>
    ELSE IF User[user_id].department # tareas[pk].departamento
    THEN <<400, "department_mismatch">>
    ELSE <<200, "assigned">>

assign(user, pk, user_id) ==
    LET out == assign_outcome(user, pk, user_id)
        ts  == IF out[1] = 200
               THEN [tareas EXCEPT ![pk].usuario_asignado = user_id]
               ELSE tareas
        ns  == IF out[1] = 200
               THEN notifications (+) SetToBag(task_assignment_notification(ts, pk))
               ELSE notifications
    IN  /\ BagCardinality(ns) <= MaxNotifications
        /\ tareas' = ts
        /\ notifications' = ns
        /\ response' = Response("assign", out[1], out[2])
        /\ UNCHANGED <<depende_de, task_dependencies, expedientes, transiciones, requests,
                   documentos>>

---------------------------------------------------------------------------
(* TaskViewSet.complete: POST tasks/<pk>/complete/ *)

\* Notification rows _check_dependent_tasks creates, read after the task row
\* has been saved as completed.
check_dependent_tasks(ts, dd, completed_task) ==
    {[user |-> ts[dependent].usuario_asignado, expediente |-> ts[dependent].expediente,
      title |-> "Tarea Disponible", task |-> dependent] :
        dependent \in {d \in TaskIds : /\ completed_task \in dd[d]
                                       /\ can_be_started(ts, dd, d)
                                       /\ ts[d].estado = "pendiente"
                                       /\ ts[d].usuario_asignado # None}}

\* Variant of next_state ordering the later states by descending order.
next_state_descending(current_state) ==
    LET later == {s \in WorkflowStates :
                    WorkflowState[s].order > WorkflowState[current_state].order}
    IN  IF later = {} THEN None
        ELSE CHOOSE s \in later :
                \A o \in later : WorkflowState[s].order >= WorkflowState[o].order

\* WorkflowState.objects.filter(order__gt=...).order_by('order').first()
next_state(current_state) ==
    LET later == {s \in WorkflowStates :
                    WorkflowState[s].order > WorkflowState[current_state].order}
    IN  IF later = {} THEN None
        ELSE CHOOSE s \in later :
                \A o \in later : WorkflowState[s].order <= WorkflowState[o].order

\* The state _check_expediente_completion moves the case to, or None.
check_expediente_completion(ts, es, expediente) ==
    LET pending_tasks == {t \in TaskIds : /\ ts[t].expediente = expediente
                                          /\ ts[t].estado \in {"pendiente", "en_progreso"}}
        current_state == es[expediente].estado_workflow
    IN  IF pending_tasks = {} /\ ~WorkflowState[current_state].is_final
        THEN next_state(current_state)
        ELSE None

\* Variant of automatic_transition that reads the origin state after the case
\* has been moved.
automatic_transition_after_move(es, expediente, to_state) ==
    [expediente |-> expediente,
     desde_estado |-> to_state,
     hacia_estado |-> to_state,
     desde_departamento |-> es[expediente].departamento_actual,
     hacia_departamento |-> es[expediente].departamento_actual,
     usuario |-> es[expediente].creado_por,
     comentarios |-> "automatica",
     motivo_rechazo |-> ""]

automatic_transition(es, expediente, to_state) ==
    [expediente |-> expediente,
     desde_estado |-> es[expediente].estado_workflow,
     hacia_estado |-> to_state,
     desde_departamento |-> es[expediente].departamento_actual,
     hacia_departamento |-> es[expediente].departamento_actual,
     usuario |-> es[expediente].creado_por,
     comentarios |-> "automatica",
     motivo_rechazo |-> ""]

\* A variant that refuses a task whose dependencies are still open.
complete_outcome_gated(user, pk) ==
    IF pk \notin TaskViewSet_get_queryset(user) THEN <<404, "not_found">>
    ELSE IF ~can_complete_task(user, pk) THEN <<403, "permission_denied">>
    ELSE IF ~can_be_started(tareas, depende_de, pk)
    THEN <<400, "dependencies_pending">>
    ELSE <<200, "completed">>

complete_outcome(user, pk) ==
    IF pk \notin TaskViewSet_get_queryset(user) THEN <<404, "not_found">>
    ELSE IF ~can_complete_task(user, pk) THEN <<403, "permission_denied">>
    ELSE <<200, "completed">>

complete(user, pk, resultado) ==
    LET out == complete_outcome(user, pk)
        ok  == out[1] = 200
        ts  == IF ok
               THEN mark_as_completed(tareas, pk, user,
                        IF resultado = Absent THEN "Tarea completada" ELSE resultado)
               ELSE tareas
        ns  == IF ok
               THEN notifications (+) SetToBag(check_dependent_tasks(ts, depende_de, pk))
               ELSE notifications
        exp == tareas[pk].expediente
        to  == IF ok THEN check_expediente_completion(ts, expedientes, exp) ELSE None
    IN  /\ BagCardinality(ns) <= MaxNotifications
        /\ to # None => Len(transiciones) < MaxTransitions
        /\ tareas' = ts
        /\ notifications' = ns
        /\ transiciones' = IF to # None
                           THEN Append(transiciones,
                                       automatic_transition(expedientes, exp, to))
                           ELSE transiciones
        /\ expedientes' = IF to # None
                          THEN [expedientes EXCEPT ![exp].estado_workflow = to]
                          ELSE expedientes
        /\ response' = Response("complete", out[1], out[2])
        /\ UNCHANGED <<depende_de, task_dependencies, requests, documentos>>

---------------------------------------------------------------------------
(* ExpedienteViewSet: visibility and permission helpers. *)

ExpedienteViewSet_get_queryset(user) ==
    IF User[user].is_superuser THEN Expedientes
    ELSE IF User[user].role \in HeadRoles
    THEN {e \in Expedientes : expedientes[e].departamento_actual = User[user].department}
    ELSE {e \in Expedientes :
            \/ expedientes[e].departamento_actual = User[user].department
            \/ \E t \in TaskIds : /\ tareas[t].expediente = e
                                  /\ tareas[t].usuario_asignado = user}

CanManageExpedientes_has_permission(user) ==
    User[user].is_superuser \/ User[user].expediente_permission

\* has_object_permission for an unsafe (POST/PUT/PATCH) request
CanManageExpedientes_has_object_permission(user, e) ==
    \/ User[user].is_superuser
    \/ expedientes[e].departamento_actual = User[user].department
    \/ User[user].role \in {"department_head", "supervisor"}

can_transition_expediente(user, e) ==
    IF User[user].is_superuser THEN TRUE
    ELSE User[user].department = expedientes[e].departamento_actual

\* The checks a detail request on a case passes before its handler body runs.
expediente_access(user, pk) ==
    IF ~CanManageExpedientes_has_permission(user) THEN <<403, "permission_denied">>
    ELSE IF pk \notin ExpedienteViewSet_get_queryset(user) THEN <<404, "not_found">>
    ELSE IF ~CanManageExpedientes_has_object_permission(user, pk)
    THEN <<403, "permission_denied">>
    ELSE <<200, "ok">>

---------------------------------------------------------------------------
(* WorkflowTransitionSerializer. *)

WorkflowTransitionSerializer_read_only_fields ==
    {"id", "usuario", "created_at", "updated_at"}

\* Field validation: read-only keys of the input are dropped; the two
\* foreign keys are required and must name existing rows.
WorkflowTransitionSerializer_field_errors(data) ==
    IF data.hacia_estado \notin WorkflowStates THEN "hacia_estado"
    ELSE IF data.hacia_departamento \notin Departments THEN "hacia_departamento"
    ELSE "ok"

to_internal_value(data) ==
    [k \in DOMAIN data \ WorkflowTransitionSerializer_read_only_fields |-> data[k]]

\* Variant of validate without the department check of a non-final target.
validate_without_department_check(es, data) ==
    IF es[data.expediente].estado_workflow = data.hacia_estado THEN "same_state"
    ELSE IF /\ lower(WorkflowState[data.hacia_estado].name) = "rechazado"
            /\ data.motivo_rechazo = ""
    THEN "motivo_rechazo_required"
    ELSE "ok"

WorkflowTransitionSerializer_validate(es, data) ==
    LET expediente == data.expediente
        hacia_estado == data.hacia_estado
        hacia_departamento == data.hacia_departamento
    IN  IF es[expediente].estado_workflow = hacia_estado THEN "same_state"
        ELSE IF /\ ~WorkflowState[hacia_estado].is_final
                /\ es[expediente].departamento_actual = hacia_departamento
        THEN "same_department"
        ELSE IF /\ lower(WorkflowState[hacia_estado].name) = "rechazado"
                /\ data.motivo_rechazo = ""
        THEN "motivo_rechazo_required"
        ELSE "ok"

\* The coarse status and completion stamp a target state's name gives.
status_for_state(row, hacia_estado) ==
    LET name == lower(WorkflowState[hacia_estado].name)
    IN  IF name = "completado"
        THEN [row EXCEPT !.estado_actual = "completado", !.fecha_completado = "now"]
        ELSE IF name = "rechazado" THEN [row EXCEPT !.estado_actual = "rechazado"]
        ELSE IF name = "en apelación" THEN [row EXCEPT !.estado_actual = "en_apelacion"]
        ELSE IF contains_revision(name) THEN [row EXCEPT !.estado_actual = "en_revision"]
        ELSE [row EXCEPT !.estado_actual = "aprobado"]

\* create(validated_data): validated_data['usuario'] is read before anything
\* is written.
WorkflowTransitionSerializer_create(es, validated_data) ==
    IF "usuario" \notin DOMAIN validated_data
    THEN [raised |-> "KeyError", transition |-> None, expedientes |-> es]
    ELSE LET expediente == validated_data.expediente
             hacia_estado == validated_data.hacia_estado
             hacia_departamento == validated_data.hacia_departamento
             row == [es[expediente] EXCEPT
                        !.estado_workflow = hacia_estado,
                        !.departamento_actual =
                            IF hacia_departamento # None THEN hacia_departamento ELSE @]
         IN  [raised |-> None,
              transition |->
                  [expediente |-> expediente,
                   desde_estado |-> es[expediente].estado_workflow,
                   hacia_estado |-> hacia_estado,
                   desde_departamento |-> es[expediente].departamento_actual,
                   hacia_departamento |-> hacia_departamento,
                   usuario |-> validated_data.usuario,
                   comentarios |-> validated_data.comentarios,
                   motivo_rechazo |-> validated_data.motivo_rechazo],
              expedientes |-> [es EXCEPT ![expediente] = status_for_state(row, hacia_estado)]]

---------------------------------------------------------------------------
(* ExpedienteViewSet.transition: POST expedientes/<pk>/transition/ *)

create_transition_notification(transition) ==
    {[user |-> u, expediente |-> transition.expediente,
      title |-> "Transición de Expediente", task |-> None] :
        u \in {x \in Users : /\ User[x].department = transition.hacia_departamento
                             /\ User[x].is_active}}

transition_data(user, pk, hacia_estado, hacia_departamento, motivo_rechazo) ==
    [expediente |-> pk, hacia_estado |-> hacia_estado,
     hacia_departamento |-> hacia_departamento, usuario |-> user,
     comentarios |-> "", motivo_rechazo |-> motivo_rechazo]

transition_outcome(user, pk, data) ==
    LET access == expediente_access(user, pk)
    IN  IF access[1] # 200 THEN access
        ELSE IF ~can_transition_expediente(user, pk) THEN <<403, "permission_denied">>
        ELSE IF WorkflowTransitionSerializer_field_errors(data) # "ok"
        THEN <<400, WorkflowTransitionSerializer_field_errors(data)>>
        ELSE IF WorkflowTransitionSerializer_validate(expedientes, data) # "ok"
        THEN <<400, WorkflowTransitionSerializer_validate(expedientes, data)>>
        ELSE IF WorkflowTransitionSerializer_create(
                    expedientes, to_internal_value(data)).raised # None
        THEN <<500, "KeyError">>
        ELSE <<201, "created">>

transition(user, pk, hacia_estado, hacia_departamento, motivo_rechazo) ==
    LET data == transition_data(user, pk, hacia_estado, hacia_departamento, motivo_rechazo)
        out  == transition_outcome(user, pk, data)
        ok   == out[1] = 201
        made == WorkflowTransitionSerializer_create(expedientes, to_internal_value(data))
        ns   == IF ok
                THEN notifications (+) SetToBag(create_transition_notification(made.transition))
                ELSE notifications
    IN  /\ BagCardinality(ns) <= MaxNotifications
        /\ ok => Len(transiciones) < MaxTransitions
        /\ transiciones' = IF ok THEN Append(transiciones, made.transition)
                           ELSE transiciones
        /\ expedientes' = IF ok THEN made.expedientes ELSE expedientes
        /\ notifications' = ns
        /\ response' = Response("transition", out[1], out[2])
        /\ UNCHANGED <<tareas, depende_de, task_dependencies, requests, documentos>>

---------------------------------------------------------------------------
(* ExpedienteViewSet.update with ExpedienteSerializer: PUT/PATCH            *)
(* expedientes/<pk>/.  `data` is the request body: a function from the     *)
(* keys present, among estado_workflow, departamento_actual, estado_actual *)
(* and fecha_completado, to their values.                                  *)

ExpedienteSerializer_update(row, data) ==
    [k \in DOMAIN row |-> IF k \in DOMAIN data THEN data[k] ELSE row[k]]

expediente_update(user, pk, data) ==
    LET out == expediente_access(user, pk)
    IN  /\ expedientes' = IF out[1] = 200
                          THEN [expedientes EXCEPT
                                   ![pk] = ExpedienteSerializer_update(@, data)]
                          ELSE expedientes
        /\ response' = Response("expediente_update", out[1], out[2])
        /\ UNCHANGED <<tareas, depende_de, task_dependencies, transiciones, notifications, requests,
                   documentos>>

---------------------------------------------------------------------------
(* Initial rows: tasks T1..T3 of case E1 and T4 of case E2, all pending,    *)
(* unassigned and without dependencies; both cases as created.             *)

\* One uploaded document: version 1, active, without parent.
\* parent_document of a document that has none (the column is NULL).
NoDocument == 0

InitDocumentos ==
    <<[expediente |-> "E1", version |-> 1, parent_document |-> NoDocument,
       status |-> "activo", uploaded_by |-> "U1"]>>

InitTareas ==
    [t \in TaskIds |->
        [expediente |-> IF t = "T4" THEN "E2" ELSE "E1",
         departamento |-> IF t \in {"T1", "T2"} THEN "D1" ELSE "D2",
         usuario_asignado |-> None,
         estado |-> "pendiente",
         fecha_completacion |-> None,
         resultado |-> ""]]

InitExpedientes ==
    [e \in Expedientes |->
        [estado_workflow |-> "S1",
         departamento_actual |-> "D1",
         estado_actual |-> "iniciado",
         fecha_completado |-> None,
         creado_por |-> "U1"]]

Init ==
    /\ tareas = InitTareas
    /\ depende_de = [t \in TaskIds |-> {}]
    /\ task_dependencies = {}
    /\ expedientes = InitExpedientes
    /\ transiciones = <<>>
    /\ notifications = EmptyBag
    /\ response = Response("none", 0, "")
    /\ requests = [r \in RequestIds |-> NoRequest]
    /\ documentos = InitDocumentos

---------------------------------------------------------------------------
(* Dependency graph: add_dependency and task updates that set depende_de.  *)

\* The requests are about two tasks of case E1 and the task of case E2; an
\* add_dependency may also name no task or an unknown one.
DepsTasks == {"T1", "T2", "T4"}

NextDeps ==
    \/ \E user \in Users, pk \in DepsTasks, depends_on_id \in DepsTasks \cup {None, "T9"} :
          add_dependency(user, pk, depends_on_id)
    \/ \E user \in Users, pk \in DepsTasks, data \in [depende_de : SUBSET DepsTasks] :
          task_update(user, pk, data)

SpecDeps == Init /\ [][NextDeps]_vars

\* Every edge recorded for the tasks, as a depends-on link or as a row.
AllEdges == Links(depende_de) \cup task_dependencies

\* The tasks reachable from t through one or more edges of E.
RECURSIVE ReachableVia(_, _)
ReachableVia(E, seen) ==
    LET more == seen \cup {e[2] : e \in {x \in E : x[1] \in seen}}
    IN  IF more = seen THEN seen ELSE ReachableVia(E, more)

Reachable(E, t) == ReachableVia(E, {e[2] : e \in {x \in E : x[1] = t}})

\* The caller sees the task and may modify its dependencies.
MayModify(user, pk) ==
    pk \in TaskViewSet_get_queryset(user) /\ can_modify_dependencies(user, pk)

\* C1: the dependency relation (links and rows together) is acyclic: no task
\* is reachable from itself through one or more edges.
C1_DependencyRelationAcyclic ==
    \A t \in TaskIds : t \notin Reachable(AllEdges, t)

\* C2: add_dependency(task, depends_on) fails as circular and inserts no row
\* whenever task is already reachable from depends_on through the rows that
\* earlier successful add_dependency calls inserted.
C2_CycleThroughRowsRejected ==
    [][\A user \in Users, pk \in TaskIds, depends_on_id \in TaskIds :
          ( /\ add_dependency(user, pk, depends_on_id)
            /\ MayModify(user, pk)
            /\ pk \in Reachable(task_dependencies, depends_on_id) )
          => /\ response'.status = 400
             /\ response'.detail = "circular"
             /\ task_dependencies' = task_dependencies]_vars

\* C3: add_dependency(task, task) fails with the self-dependency error and
\* leaves the edges unchanged; no task ever has an edge to itself.
C3_SelfDependencyRejected ==
    [][/\ \A user \in Users, pk \in TaskIds :
             (add_dependency(user, pk, pk) /\ MayModify(user, pk))
             => /\ response'.status = 400
                /\ response'.detail = "self_dependency"
                /\ task_dependencies' = task_dependencies
       /\ \A t \in TaskIds : <<t, t>> \notin task_dependencies' /\ t \notin depende_de'[t]
      ]_vars

\* C4: after a successful add_dependency(task, depends_on), depends_on is one
\* of task's direct dependencies as can_start, the cycle check and the
\* completion cascade read them (Task.depende_de), and the rows and the
\* links denote the same set of edges.
C4_RowIsAlsoALink ==
    [][\A user \in Users, pk \in TaskIds, depends_on_id \in TaskIds :
          ( /\ pk # depends_on_id
            /\ add_dependency(user, pk, depends_on_id)
            /\ response'.status = 200 )
          => /\ depends_on_id \in depende_de'[pk]
             /\ task_dependencies' = Links(depende_de')]_vars

---------------------------------------------------------------------------
(* Readiness: the statuses of T2 and T4 are set through the task update,   *)
(* and so are the dependencies of T1.                                      *)

NextCanStart ==
    \/ \E user \in Users, pk \in {"T2", "T4"}, data \in [estado : TASK_STATUS] :
          task_update(user, pk, data)
    \/ \E user \in Users, data \in [depende_de : SUBSET DepsTasks] :
          task_update(user, "T1", data)

SpecCanStart == Init /\ [][NextCanStart]_vars

\* C5: can_start(task) is true exactly when all of the task's direct
\* dependencies have status completed, and false if any of them is pending
\* or in progress.
C5_CanStartIffAllCompleted ==
    \A t \in TaskIds :
        /\ can_be_started(tareas, depende_de, t)
              <=> (\A d \in depende_de[t] : tareas[d].estado = "completada")
        /\ (\E d \in depende_de[t] : tareas[d].estado \in {"pendiente", "en_progreso"})
              => ~can_be_started(tareas, depende_de, t)

---------------------------------------------------------------------------
(* Completion cascade in case E1: T1 and T3 are completed; T2 and T3 get   *)
(* assignees and dependencies, as links (task update) or rows              *)
(* (add_dependency).                                                       *)

NextCascade ==
    \/ \E user \in Users, pk \in {"T1", "T3"}, resultado \in {Absent, "R"} :
          complete(user, pk, resultado)
    \/ \E pk \in {"T2", "T3"}, user_id \in Users :
          assign("U1", pk, user_id)
    \/ \E pk \in {"T2", "T3"}, data \in [depende_de : SUBSET {"T1", "T3"}] :
          task_update("U1", pk, data)
    \/ \E pk \in {"T2", "T3"} :
          add_dependency("U1", pk, "T1")

SpecCascade == Init /\ [][NextCascade]_vars

\* The tasks that directly depend on t, and the tasks t directly depends on,
\* over every edge recorded (link or row).
DirectDependents(t) ==
    {d \in TaskIds : t \in depende_de[d] \/ <<d, t>> \in task_dependencies}

DirectDependencies(t) ==
    depende_de[t] \cup {d \in TaskIds : <<t, d>> \in task_dependencies}

StartableNotification(ts, d) ==
    [user |-> ts[d].usuario_asignado, expediente |-> ts[d].expediente,
     title |-> "Tarea Disponible", task |-> d]

\* C6: complete(task) creates exactly one 'now startable' notification, to
\* the dependent's assigned user, for each task that directly depends on the
\* completed task, is still pending and can start after the completion, and
\* none for any other task; a task whose only dependency is the completed
\* task cannot start before the completion and can after it.
C6_CompletionNotifiesStartableDependents ==
    [][\A user \in Users, pk \in TaskIds, resultado \in {Absent, "R"} :
          (response' = Response("complete", 200, "completed")
              /\ complete(user, pk, resultado))
          => LET startable ==
                    {d \in DirectDependents(pk) :
                        /\ tareas'[d].estado = "pendiente"
                        /\ can_be_started(tareas', depende_de', d)
                        /\ tareas'[d].usuario_asignado # None}
             IN  /\ notifications' = notifications (+)
                        SetToBag({StartableNotification(tareas', d) : d \in startable})
                 /\ \A d \in DirectDependents(pk) :
                        ( /\ DirectDependencies(d) = {pk}
                          /\ tareas[pk].estado \in {"pendiente", "en_progreso"} )
                        => /\ ~can_be_started(tareas, depende_de, d)
                           /\ can_be_started(tareas', depende_de', d)]_vars

---------------------------------------------------------------------------
(* Workflow of case E1, whose open tasks are T1 and T2 (T3 is cancelled):   *)
(* transition requests, direct updates of the case's workflow state, task  *)
(* completion and tasks taken in progress.                                 *)

InitWorkflow ==
    /\ tareas = [InitTareas EXCEPT !["T3"].estado = "cancelada"]
    /\ depende_de = [t \in TaskIds |-> {}]
    /\ task_dependencies = {}
    /\ expedientes = InitExpedientes
    /\ transiciones = <<>>
    /\ notifications = EmptyBag
    /\ response = Response("none", 0, "")
    /\ requests = [r \in RequestIds |-> NoRequest]
    /\ documentos = InitDocumentos

NextWorkflow ==
    \/ \E user \in Users, hacia_estado \in WorkflowStates \cup {None},
          hacia_departamento \in Departments \cup {None}, motivo_rechazo \in {"", "motivo"} :
          transition(user, "E1", hacia_estado, hacia_departamento, motivo_rechazo)
    \/ \E user \in Users, data \in [estado_workflow : WorkflowStates] :
          expediente_update(user, "E1", data)
    \/ \E user \in Users, pk \in {"T1", "T2"} :
          complete(user, pk, Absent)
    \/ \E pk \in {"T1", "T2"} :
          task_update("U1", pk, [estado |-> "en_progreso"])

SpecWorkflow == InitWorkflow /\ [][NextWorkflow]_vars

OpenTasks(e) ==
    {t \in TaskIds : /\ tareas[t].expediente = e
                     /\ tareas[t].estado \in {"pendiente", "en_progreso"}}

HasLaterState(s) ==
    \E o \in WorkflowStates : WorkflowState[o].order > WorkflowState[s].order

IsNextState(cur, s) ==
    /\ WorkflowState[s].order > WorkflowState[cur].order
    /\ \A o \in WorkflowStates :
          WorkflowState[o].order > WorkflowState[cur].order
              => WorkflowState[s].order <= WorkflowState[o].order

\* The step appended exactly one automatic transition of case e and moved e
\* to the state of smallest order above cur.
AutomaticAdvance(e, cur) ==
    /\ Len(transiciones') = Len(transiciones) + 1
    /\ SubSeq(transiciones', 1, Len(transiciones)) = transiciones
    /\ LET last == transiciones'[Len(transiciones')]
       IN  /\ last.expediente = e
           /\ last.comentarios = "automatica"
           /\ last.desde_estado = cur
           /\ IsNextState(cur, last.hacia_estado)
           /\ expedientes'[e].estado_workflow = last.hacia_estado

\* C7: a successful completion of the last pending or in-progress task of a
\* case whose current state is non-final appends exactly one automatic
\* transition and moves the case to the state with the smallest order
\* greater than the current one; a completion while another task of the
\* case is still pending or in progress appends none.
C7_LastTaskAdvancesCase ==
    [][\A user \in Users, pk \in TaskIds, resultado \in {Absent, "R"} :
          (response' = Response("complete", 200, "completed")
              /\ complete(user, pk, resultado))
          => LET e   == tareas[pk].expediente
                 cur == expedientes[e].estado_workflow
             IN  /\ (OpenTasks(e) = {pk} /\ ~WorkflowState[cur].is_final)
                        => AutomaticAdvance(e, cur)
                 /\ (OpenTasks(e) \ {pk} # {})
                        => /\ transiciones' = transiciones
                           /\ expedientes' = expedientes]_vars

\* C7 (amended): as C7 when some state has an order greater than the
\* current state's; when the current state is non-final and no state has a
\* greater order, completing the last open task appends no transition and
\* leaves the case where it is.
C7_LastTaskAdvancesCaseIfLaterStateExists ==
    [][\A user \in Users, pk \in TaskIds, resultado \in {Absent, "R"} :
          (response' = Response("complete", 200, "completed")
              /\ complete(user, pk, resultado))
          => LET e   == tareas[pk].expediente
                 cur == expedientes[e].estado_workflow
             IN  /\ (/\ OpenTasks(e) = {pk}
                     /\ ~WorkflowState[cur].is_final
                     /\ HasLaterState(cur))
                        => AutomaticAdvance(e, cur)
                 /\ (/\ OpenTasks(e) = {pk}
                     /\ ~WorkflowState[cur].is_final
                     /\ ~HasLaterState(cur))
                        => /\ transiciones' = transiciones
                           /\ expedientes' = expedientes
                 /\ (OpenTasks(e) \ {pk} # {})
                        => /\ transiciones' = transiciones
                           /\ expedientes' = expedientes]_vars

\* A completion has just closed the last open task of E1 and the automatic
\* transition it appended is the one the case now stands at.
C7_Witness ==
    /\ response = Response("complete", 200, "completed")
    /\ OpenTasks("E1") = {}
    /\ Len(transiciones) >= 1
    /\ transiciones[Len(transiciones)].comentarios = "automatica"
    /\ transiciones[Len(transiciones)].expediente = "E1"
    /\ expedientes["E1"].estado_workflow = transiciones[Len(transiciones)].hacia_estado

\* The request passes the view's access checks and the serializer's field
\* and object validation.
SatisfiesAllConstraints(user, pk, data) ==
    /\ expediente_access(user, pk)[1] = 200
    /\ can_transition_expediente(user, pk)
    /\ WorkflowTransitionSerializer_field_errors(data) = "ok"
    /\ WorkflowTransitionSerializer_validate(expedientes, data) = "ok"

\* C8: a transition request that satisfies all constraints answers 201,
\* appends exactly one record whose origin is the case's state and
\* department before the call, whose target is the requested state and
\* department and whose user is the requester, and leaves the case at the
\* requested state and department.
C8_ValidTransitionIsRecorded ==
    [][\A user \in Users, pk \in Expedientes, hacia_estado \in WorkflowStates,
          hacia_departamento \in Departments, motivo_rechazo \in {"", "motivo"} :
          (/\ response'.op = "transition"
           /\ SatisfiesAllConstraints(user, pk,
                  transition_data(user, pk, hacia_estado, hacia_departamento,
                                  motivo_rechazo))
           /\ transition(user, pk, hacia_estado, hacia_departamento, motivo_rechazo))
          => /\ response'.status = 201
             /\ Len(transiciones') = Len(transiciones) + 1
             /\ SubSeq(transiciones', 1, Len(transiciones)) = transiciones
             /\ LET last == transiciones'[Len(transiciones')]
                IN  /\ last.expediente = pk
                    /\ last.desde_estado = expedientes[pk].estado_workflow
                    /\ last.desde_departamento = expedientes[pk].departamento_actual
                    /\ last.hacia_estado = hacia_estado
                    /\ last.hacia_departamento = hacia_departamento
                    /\ last.usuario = user
             /\ expedientes'[pk].estado_workflow = hacia_estado
             /\ expedientes'[pk].departamento_actual = hacia_departamento]_vars

\* C9: a transition request of a user allowed to move the case, naming an
\* existing state and department, answers 400 with the same-state error
\* when the target state is the case's current state, and with the
\* same-department error when the target state differs, is not final and
\* the target department is the case's current department; in both cases
\* the transition log and the case rows are unchanged.
C9_InvalidTransitionRejected ==
    [][\A user \in Users, pk \in Expedientes, hacia_estado \in WorkflowStates,
          hacia_departamento \in Departments, motivo_rechazo \in {"", "motivo"} :
          (/\ response'.op = "transition"
           /\ \/ hacia_estado = expedientes[pk].estado_workflow
              \/ /\ ~WorkflowState[hacia_estado].is_final
                 /\ hacia_departamento = expedientes[pk].departamento_actual
           /\ expediente_access(user, pk)[1] = 200
           /\ can_transition_expediente(user, pk)
           /\ transition(user, pk, hacia_estado, hacia_departamento, motivo_rechazo))
          => /\ response' = Response("transition", 400,
                                     IF hacia_estado = expedientes[pk].estado_workflow
                                     THEN "same_state" ELSE "same_department")
             /\ transiciones' = transiciones
             /\ expedientes' = expedientes]_vars

\* A request towards another, non-final state that keeps the department has
\* just been refused, and the case still is where it was created.
C9_Witness ==
    /\ response = Response("transition", 400, "same_department")
    /\ transiciones = <<>>
    /\ expedientes["E1"].departamento_actual = "D1"

\* C10: a transition request towards the state named "Rechazado" that
\* otherwise satisfies all constraints answers 400 and changes nothing when
\* motivo_rechazo is empty; with a non-empty motivo_rechazo it answers 201
\* and the case's estado_actual becomes "rechazado".
C10_RejectionNeedsReason ==
    [][\A user \in Users, pk \in Expedientes, hacia_estado \in WorkflowStates,
          hacia_departamento \in Departments, motivo_rechazo \in {"", "motivo"} :
          (/\ response'.op = "transition"
           /\ lower(WorkflowState[hacia_estado].name) = "rechazado"
           /\ hacia_estado # expedientes[pk].estado_workflow
           /\ expediente_access(user, pk)[1] = 200
           /\ can_transition_expediente(user, pk)
           /\ transition(user, pk, hacia_estado, hacia_departamento, motivo_rechazo))
          => /\ motivo_rechazo = ""
                   => /\ response' = Response("transition", 400, "motivo_rechazo_required")
                      /\ transiciones' = transiciones
                      /\ expedientes' = expedientes
             /\ motivo_rechazo # ""
                   => /\ response'.status = 201
                      /\ expedientes'[pk].estado_actual = "rechazado"]_vars

---------------------------------------------------------------------------
(* Case E1 under transition requests, direct updates of any of its         *)
(* writable workflow fields, and task completion.                          *)

CaseUpdates ==
    [estado_workflow : WorkflowStates] \cup [departamento_actual : Departments]
        \cup [estado_actual : EXPEDIENTE_STATES] \cup [fecha_completado : {None, "now"}]

NextCase ==
    \/ \E user \in Users, hacia_estado \in WorkflowStates,
          hacia_departamento \in Departments :
          transition(user, "E1", hacia_estado, hacia_departamento, "motivo")
    \/ \E user \in Users, data \in CaseUpdates :
          expediente_update(user, "E1", data)
    \/ \E user \in Users, pk \in {"T1", "T2"} :
          complete(user, pk, Absent)

SpecCase == InitWorkflow /\ [][NextCase]_vars

\* The transition records of case e, as their positions in the log.
TransitionsOf(e) == {i \in 1..Len(transiciones) : transiciones[i].expediente = e}

LastTransitionOf(e) ==
    transiciones[CHOOSE i \in TransitionsOf(e) : \A j \in TransitionsOf(e) : j <= i]

\* C11: every case's current state and department are non-null and equal
\* the target state and department of its most recently created transition
\* record, or the values it was created with when it has no record.
C11_PointersFollowTransitionLog ==
    \A e \in Expedientes :
        /\ expedientes[e].estado_workflow # None
        /\ expedientes[e].departamento_actual # None
        /\ IF TransitionsOf(e) = {}
           THEN /\ expedientes[e].estado_workflow = InitExpedientes[e].estado_workflow
                /\ expedientes[e].departamento_actual
                       = InitExpedientes[e].departamento_actual
           ELSE /\ expedientes[e].estado_workflow = LastTransitionOf(e).hacia_estado
                /\ expedientes[e].departamento_actual
                       = LastTransitionOf(e).hacia_departamento

\* The coarse status the fixed mapping gives to a state's name.
CoarseStatus(s) ==
    CASE s = "S3" -> "completado"
      [] s = "S4" -> "rechazado"
      [] s = "S5" -> "en_apelacion"
      [] s = "S2" -> "en_revision"
      [] OTHER -> "aprobado"

\* C12: a transition request that satisfies all constraints succeeds and
\* leaves the case with the coarse status that the target state's name
\* alone determines, the completion time being stamped when the target is
\* the completed state.
C12_StatusFollowsTargetName ==
    [][\A user \in Users, pk \in Expedientes, hacia_estado \in WorkflowStates,
          hacia_departamento \in Departments, motivo_rechazo \in {"", "motivo"} :
          (/\ response'.op = "transition"
           /\ SatisfiesAllConstraints(user, pk,
                  transition_data(user, pk, hacia_estado, hacia_departamento,
                                  motivo_rechazo))
           /\ transition(user, pk, hacia_estado, hacia_departamento, motivo_rechazo))
          => /\ response'.status = 201
             /\ expedientes'[pk].estado_actual = CoarseStatus(hacia_estado)
             /\ CoarseStatus(hacia_estado) = "completado"
                    => expedientes'[pk].fecha_completado = "now"]_vars

\* C13: for every case the completion timestamp is set exactly when the
\* coarse status is 'completado'.
C13_CompletionStampIffCompleted ==
    \A e \in Expedientes :
        (expedientes[e].fecha_completado # None)
            <=> (expedientes[e].estado_actual = "completado")

---------------------------------------------------------------------------
(* WorkflowTransitionViewSet is a ReadOnlyModelViewSet: it routes list and *)
(* retrieve only, so PUT, PATCH and DELETE on transitions/<pk>/ are        *)
(* answered 405 and reach no handler.                                      *)

\* Variant in which the viewset is a ModelViewSet: DELETE removes the
\* record and PUT/PATCH rewrite its comment.
WorkflowTransitionViewSet_writable(user, pk, method) ==
    /\ transiciones' =
          IF pk \notin 1..Len(transiciones) THEN transiciones
          ELSE IF method = "DELETE"
          THEN SubSeq(transiciones, 1, pk - 1)
                   \o SubSeq(transiciones, pk + 1, Len(transiciones))
          ELSE [transiciones EXCEPT ![pk].comentarios = "editado"]
    /\ response' = Response("transition_write",
                            IF pk \in 1..Len(transiciones) THEN 200 ELSE 404, "")
    /\ UNCHANGED <<tareas, depende_de, task_dependencies, expedientes,
                   notifications, requests,
                   documentos>>

WorkflowTransitionViewSet_write(user, pk, method) ==
    /\ response' = Response("transition_write", 405, "method_not_allowed")
    /\ UNCHANGED <<tareas, depende_de, task_dependencies, expedientes,
                   transiciones, notifications, requests,
                   documentos>>

NextHistory ==
    \/ \E user \in Users, hacia_estado \in {"S2", "S4"},
          hacia_departamento \in Departments :
          transition(user, "E1", hacia_estado, hacia_departamento, "motivo")
    \/ \E user \in Users, pk \in {"T1", "T2"} :
          complete(user, pk, Absent)
    \/ \E user_id \in Users :
          assign("U1", "T2", user_id)
    \/ add_dependency("U1", "T2", "T1")
    \/ \E data \in [departamento_actual : Departments] :
          expediente_update("U1", "E1", data)
    \/ \E pk \in {"T1", "T2"} :
          task_update("U1", pk, [estado |-> "en_progreso"])
    \/ \E user \in Users, pk \in 1..MaxTransitions, method \in {"PUT", "PATCH", "DELETE"} :
          WorkflowTransitionViewSet_write(user, pk, method)

SpecHistory == InitWorkflow /\ [][NextHistory]_vars

\* C14: no step changes or removes a transition record that exists: the
\* log after the step starts with the whole log before it.
C14_TransitionLogOnlyGrows ==
    [][/\ Len(transiciones') >= Len(transiciones)
       /\ SubSeq(transiciones', 1, Len(transiciones)) = transiciones]_vars

\* A write request on the transitions endpoint has been refused while the
\* log holds the record of an automatic advance.
C14_Witness ==
    /\ response = Response("transition_write", 405, "method_not_allowed")
    /\ Len(transiciones) >= 1
    /\ transiciones[1].comentarios = "automatica"

---------------------------------------------------------------------------
(* ExpedienteViewSet.workflow_context: GET expedientes/<pk>/workflow_context/ *)
(* with the available next states and departments of the case.             *)

RECURSIVE order_by_order(_)
\* WorkflowState queryset .order_by('order')
order_by_order(S) ==
    IF S = {} THEN <<>>
    ELSE LET first == CHOOSE s \in S :
                         \A o \in S : WorkflowState[s].order <= WorkflowState[o].order
         IN  <<first>> \o order_by_order(S \ {first})

RECURSIVE order_by_workflow_order(_)
\* Department queryset .order_by('workflow_order')
order_by_workflow_order(S) ==
    IF S = {} THEN <<>>
    ELSE LET first == CHOOSE d \in S :
                         \A o \in S : Department[d].workflow_order
                                          <= Department[o].workflow_order
         IN  <<first>> \o order_by_workflow_order(S \ {first})

\* queryset[:3]
first_three(rows) == SubSeq(rows, 1, IF Len(rows) < 3 THEN Len(rows) ELSE 3)

\* Variant of get_available_transitions that keeps the states of equal or
\* greater order (order__gte).
get_available_transitions_gte(es, e) ==
    LET current_state == es[e].estado_workflow
    IN  IF current_state = None \/ WorkflowState[current_state].is_final THEN <<>>
        ELSE first_three(order_by_order(
                 {s \in WorkflowStates :
                     WorkflowState[s].order >= WorkflowState[current_state].order}))

get_available_transitions(es, e) ==
    LET current_state == es[e].estado_workflow
    IN  IF current_state = None \/ WorkflowState[current_state].is_final THEN <<>>
        ELSE first_three(order_by_order(
                 {s \in WorkflowStates :
                     WorkflowState[s].order > WorkflowState[current_state].order}))

get_next_departments(es, e) ==
    LET current_dept == es[e].departamento_actual
    IN  IF current_dept = None THEN <<>>
        ELSE first_three(order_by_workflow_order(
                 {d \in Departments :
                     /\ Department[d].workflow_order > Department[current_dept].workflow_order
                     /\ Department[d].is_active}))

\* The checks a safe (GET) detail request on a case passes.
expediente_read_access(user, pk) ==
    IF ~CanManageExpedientes_has_permission(user) THEN <<403, "permission_denied">>
    ELSE IF pk \notin ExpedienteViewSet_get_queryset(user) THEN <<404, "not_found">>
    ELSE IF ~(\/ CanManageExpedientes_has_object_permission(user, pk)
              \/ User[user].expediente_permission)
    THEN <<403, "permission_denied">>
    ELSE <<200, "ok">>

workflow_context(user, pk) ==
    LET out == expediente_read_access(user, pk)
    IN  /\ response' =
              [op |-> "workflow_context", status |-> out[1], detail |-> out[2],
               available_transitions |->
                   IF out[1] = 200 THEN get_available_transitions(expedientes, pk)
                   ELSE <<>>,
               next_departments |->
                   IF out[1] = 200 THEN get_next_departments(expedientes, pk)
                   ELSE <<>>]
        /\ UNCHANGED <<tareas, depende_de, task_dependencies, expedientes,
                       transiciones, notifications, requests,
                   documentos>>

NextContext ==
    \/ \E user \in Users, pk \in Expedientes :
          workflow_context(user, pk)
    \/ \E user \in Users,
          data \in [estado_workflow : WorkflowStates] \cup [departamento_actual : Departments] :
          expediente_update(user, "E1", data)
    \/ \E user \in Users, pk \in {"T1", "T2"} :
          complete(user, pk, Absent)

SpecContext == InitWorkflow /\ [][NextContext]_vars

IsAscending(rows) ==
    \A i, j \in 1..Len(rows) :
        i < j => WorkflowState[rows[i]].order < WorkflowState[rows[j]].order

C16_AvailableNextDepartments ==
    [][\A user \in Users, pk \in Expedientes :
          (/\ response'.op = "workflow_context"
           /\ response'.status = 200
           /\ workflow_context(user, pk))
          => LET cur   == expedientes[pk].estado_workflow
                 dept  == expedientes[pk].departamento_actual
                 rows  == response'.next_departments
                 later == {d \in Departments :
                             Department[d].workflow_order > Department[dept].workflow_order}
                 got   == {rows[i] : i \in 1..Len(rows)}
             IN  /\ WorkflowState[cur].is_final => rows = <<>>
                 /\ ~WorkflowState[cur].is_final
                       => /\ got \subseteq later
                          /\ Len(rows) = IF Cardinality(later) < 3
                                         THEN Cardinality(later) ELSE 3
                          /\ \A i, j \in 1..Len(rows) :
                                i < j => Department[rows[i]].workflow_order
                                             < Department[rows[j]].workflow_order]_vars

---------------------------------------------------------------------------
(* Automatic advance: completions of the tasks of case E1 (T3, of the      *)
(* other department and assigned to U2, included) while the case's state   *)
(* and department are moved by direct updates.                             *)

NextAdvance ==
    \/ \E user \in Users, pk \in {"T1", "T2", "T3"} :
          complete(user, pk, Absent)
    \/ \E data \in [estado_workflow : WorkflowStates] \cup [departamento_actual : Departments] :
          expediente_update("U1", "E1", data)
    \/ assign("U1", "T3", "U2")

SpecAdvance == InitWorkflow /\ [][NextAdvance]_vars

\* C17: a completion that appends a transition appends exactly one, from
\* the case's previous state to the state of next-greater order, with both
\* departments equal to the case's department, which does not change, and
\* with the case's creator as user; a completion on a case whose state is
\* final, or has no state of greater order, appends nothing and leaves the
\* case unchanged.
C17_AutomaticAdvanceRecord ==
    [][\A user \in Users, pk \in TaskIds :
          (/\ response' = Response("complete", 200, "completed")
           /\ complete(user, pk, Absent))
          => LET e    == tareas[pk].expediente
                 cur  == expedientes[e].estado_workflow
                 dept == expedientes[e].departamento_actual
             IN  /\ transiciones' # transiciones
                       => /\ Len(transiciones') = Len(transiciones) + 1
                          /\ SubSeq(transiciones', 1, Len(transiciones)) = transiciones
                          /\ LET last == transiciones'[Len(transiciones')]
                             IN  /\ last.expediente = e
                                 /\ last.desde_estado = cur
                                 /\ IsNextState(cur, last.hacia_estado)
                                 /\ last.desde_departamento = dept
                                 /\ last.hacia_departamento = dept
                                 /\ last.usuario = expedientes[e].creado_por
                                 /\ expedientes'[e].estado_workflow = last.hacia_estado
                          /\ expedientes'[e].departamento_actual = dept
                 /\ (WorkflowState[cur].is_final \/ ~HasLaterState(cur))
                       => /\ transiciones' = transiciones
                          /\ expedientes' = expedientes]_vars

\* User U2 has completed T3 and thereby advanced case E1, standing in
\* department D2 and created by U1: the record carries U1 and D2 twice.
C17_Witness ==
    /\ response = Response("complete", 200, "completed")
    /\ tareas["T3"].usuario_asignado = "U2"
    /\ tareas["T3"].estado = "completada"
    /\ Len(transiciones) = 1
    /\ transiciones[1].usuario = "U1"
    /\ transiciones[1].desde_departamento = "D2"
    /\ transiciones[1].hacia_departamento = "D2"
    /\ expedientes["E1"].departamento_actual = "D2"
    /\ expedientes["E1"].estado_workflow = transiciones[1].hacia_estado
    /\ tareas["T1"].usuario_asignado = "U1"

\* C18: a completion that advances a case leaves the case's row as a
\* transition request to the same target state in the same department
\* would: state moved, coarse status derived from the new state's name, and
\* completion time stamped when the new state is the completed state.
C18_AutomaticAdvanceUpdatesStatus ==
    [][\A user \in Users, pk \in TaskIds :
          (/\ response' = Response("complete", 200, "completed")
           /\ transiciones' # transiciones
           /\ complete(user, pk, Absent))
          => LET e  == tareas[pk].expediente
                 to == transiciones'[Len(transiciones')].hacia_estado
             IN  expedientes'[e]
                     = WorkflowTransitionSerializer_create(expedientes,
                           [expediente |-> e, hacia_estado |-> to,
                            hacia_departamento |-> expedientes[e].departamento_actual,
                            usuario |-> expedientes[e].creado_por,
                            comentarios |-> "automatica",
                            motivo_rechazo |-> ""]).expedientes[e]]_vars

---------------------------------------------------------------------------
(* TaskViewSet.complete when Notification.objects.create raises: the       *)
(* exception leaves the `with transaction.atomic()` block, which rolls     *)
(* back the rows written in it, and is answered as a server error.         *)

complete_notification_error(user, pk, resultado) ==
    LET out == complete_outcome(user, pk)
        ts  == mark_as_completed(tareas, pk, user,
                   IF resultado = Absent THEN "Tarea completada" ELSE resultado)
    IN  /\ out[1] = 200
        /\ check_dependent_tasks(ts, depende_de, pk) # {}
        /\ response' = Response("complete", 500, "notification_error")
        /\ UNCHANGED <<tareas, depende_de, task_dependencies, expedientes,
                       transiciones, notifications, requests,
                   documentos>>

NextNotify ==
    \/ \E user \in Users, pk \in {"T1", "T2"} :
          complete(user, pk, Absent)
    \/ \E user \in Users, pk \in {"T1", "T2"} :
          complete_notification_error(user, pk, Absent)
    \/ \E user_id \in Users :
          assign("U1", "T2", user_id)
    \/ \E data \in [depende_de : SUBSET {"T1", "T3"}] :
          task_update("U1", "T2", data)
    \/ \E pk \in {"T1", "T2"} :
          task_update("U1", pk, [estado |-> "en_progreso"])

SpecNotify == Init /\ [][NextNotify]_vars

\* C19: a completion request of a user allowed to complete the task, during
\* which the creation of a notification fails, is still answered 200 and
\* leaves the task completed.
C19_NotificationFailureIsolated ==
    [][\A user \in Users, pk \in TaskIds :
          (/\ response'.op = "complete"
           /\ complete_notification_error(user, pk, Absent))
          => /\ response'.status = 200
             /\ tareas'[pk].estado = "completada"]_vars

---------------------------------------------------------------------------
(* Two complete requests handled at the same time.  The handler is split   *)
(* where the code splits it: get_object() loads the task together with its *)
(* case (select_related('expediente')) before the transaction starts; the  *)
(* `with transaction.atomic()` block then runs on the loaded objects and   *)
(* on queries of the rows as they are when it runs.                        *)

complete_get_object(r, user, pk) ==
    LET out == complete_outcome(user, pk)
    IN  /\ requests[r].pk = None
        /\ requests' = IF out[1] = 200
                       THEN [requests EXCEPT ![r] =
                                [user |-> user, pk |-> pk,
                                 expediente |-> expedientes[tareas[pk].expediente]]]
                       ELSE requests
        /\ response' = IF out[1] = 200 THEN response
                       ELSE Response("complete", out[1], out[2])
        /\ UNCHANGED <<tareas, depende_de, task_dependencies, expedientes,
                       transiciones, notifications,
                   documentos>>

complete_atomic_block(r) ==
    LET req  == requests[r]
        pk   == req.pk
        exp  == tareas[pk].expediente
        ts   == mark_as_completed(tareas, pk, req.user, "Tarea completada")
        ns   == notifications (+) SetToBag(check_dependent_tasks(ts, depende_de, pk))
        \* task.expediente is the row get_object() loaded
        seen == [expedientes EXCEPT ![exp] = req.expediente]
        to   == check_expediente_completion(ts, seen, exp)
    IN  /\ requests[r].pk # None
        /\ BagCardinality(ns) <= MaxNotifications
        /\ to # None => Len(transiciones) < MaxTransitions
        /\ tareas' = ts
        /\ notifications' = ns
        /\ transiciones' = IF to # None
                           THEN Append(transiciones, automatic_transition(seen, exp, to))
                           ELSE transiciones
        \* expediente.save() writes every field of the loaded row
        /\ expedientes' = IF to # None
                          THEN [seen EXCEPT ![exp].estado_workflow = to]
                          ELSE expedientes
        /\ response' = Response("complete", 200, "completed")
        /\ requests' = [requests EXCEPT ![r] = NoRequest]
        /\ UNCHANGED <<depende_de, task_dependencies, documentos>>

NextConcurrent ==
    \/ \E r \in RequestIds, user \in Users, pk \in {"T1", "T2"} :
          complete_get_object(r, user, pk)
    \/ \E r \in RequestIds :
          complete_atomic_block(r)
    \/ \E pk \in {"T1", "T2"} :
          task_update("U1", pk, [estado |-> "en_progreso"])

SpecConcurrent == InitWorkflow /\ [][NextConcurrent]_vars

\* C20: the transition records of every case form a chain: each record
\* starts from the state and department the record created immediately
\* before it for the same case ended in, and the case stands where its
\* last record ended.
C20_TransitionsFormChain ==
    \A e \in Expedientes :
        /\ \A i, j \in TransitionsOf(e) :
              (i < j /\ \A k \in TransitionsOf(e) : ~(i < k /\ k < j))
                  => /\ transiciones[j].desde_estado = transiciones[i].hacia_estado
                     /\ transiciones[j].desde_departamento
                            = transiciones[i].hacia_departamento
        /\ TransitionsOf(e) # {}
              => /\ expedientes[e].estado_workflow = LastTransitionOf(e).hacia_estado
                 /\ expedientes[e].departamento_actual
                        = LastTransitionOf(e).hacia_departamento

---------------------------------------------------------------------------
(* Two add_dependency requests handled at the same time.  The handler     *)
(* opens no transaction and takes no lock: its checks read the tables, and *)
(* get_or_create writes the row later, on the tables as they are by then.  *)

add_dependency_check(r, user, pk, depends_on_id) ==
    LET out == add_dependency_outcome(user, pk, depends_on_id)
    IN  /\ requests[r].pk = None
        /\ requests' = IF out[1] = 200
                       THEN [requests EXCEPT ![r] =
                                [user |-> user, pk |-> pk, expediente |-> None,
                                 depends_on |-> depends_on_id]]
                       ELSE requests
        /\ response' = IF out[1] = 200 THEN response
                       ELSE Response("add_dependency", out[1], out[2])
        /\ UNCHANGED <<tareas, depende_de, task_dependencies, expedientes,
                       transiciones, notifications, documentos>>

add_dependency_get_or_create(r) ==
    LET req  == requests[r]
        rows == task_dependencies \cup {<<req.pk, req.depends_on>>}
    IN  /\ requests[r].pk # None
        /\ "depends_on" \in DOMAIN requests[r]
        /\ Cardinality(rows) <= MaxRows
        /\ task_dependencies' = rows
        /\ response' = Response("add_dependency", 200, "added")
        /\ requests' = [requests EXCEPT ![r] = NoRequest]
        /\ UNCHANGED <<tareas, depende_de, expedientes, transiciones,
                       notifications, documentos>>

NextConcurrentDeps ==
    \/ \E r \in RequestIds, pk \in {"T1", "T2"}, depends_on_id \in {"T1", "T2", "T3"} :
          /\ pk # depends_on_id
          /\ add_dependency_check(r, "U1", pk, depends_on_id)
    \/ \E r \in RequestIds :
          add_dependency_get_or_create(r)
    \/ \E data \in [depende_de : SUBSET {"T1"}] :
          task_update("U1", "T2", data)

SpecConcurrentDeps == Init /\ [][NextConcurrentDeps]_vars

\* C21: whatever add_dependency requests run at the same time, the rows they
\* insert stay acyclic: of two requests that would close a cycle together
\* (A on B, B on A) at most one inserts its row.
C21_ConcurrentCallsKeepRowsAcyclic ==
    \A t \in TaskIds : t \notin Reachable(task_dependencies, t)

---------------------------------------------------------------------------
(* Completion of T1 and T2; in between T2 gets dependencies and an        *)
(* assignee, and T1 is put back to pending or in progress.                 *)

NextComplete ==
    \/ \E user \in Users, pk \in {"T1", "T2"}, resultado \in {Absent, "R"} :
          complete(user, pk, resultado)
    \/ \E user_id \in Users :
          assign("U1", "T2", user_id)
    \/ \E data \in [depende_de : SUBSET {"T1", "T3"}] :
          task_update("U1", "T2", data)
    \/ \E data \in [estado : {"pendiente", "en_progreso"}] :
          task_update("U1", "T1", data)

SpecComplete == Init /\ [][NextComplete]_vars

\* C22: complete(task) by a user who sees the task and may complete it
\* succeeds whatever the statuses of the task's dependencies are: the task
\* gets status completed, the completion timestamp, the result given (or
\* the default text) and the actor as its assigned user.
C22_CompleteNotGatedOnCanStart ==
    [][\A user \in Users, pk \in TaskIds, resultado \in {Absent, "R"} :
          ( /\ response'.op = "complete"
            /\ pk \in TaskViewSet_get_queryset(user)
            /\ can_complete_task(user, pk)
            /\ complete(user, pk, resultado) )
          => /\ response'.status = 200
             /\ tareas'[pk].estado = "completada"
             /\ tareas'[pk].fecha_completacion = "now"
             /\ tareas'[pk].resultado
                    = (IF resultado = Absent THEN "Tarea completada" ELSE resultado)
             /\ tareas'[pk].usuario_asignado = user]_vars

\* T2 was completed while T1, which it depends on, is still open.
C22_Witness ==
    /\ response.op = "complete"
    /\ response.status = 200
    /\ tareas["T2"].estado = "completada"
    /\ tareas["T2"].fecha_completacion = "now"
    /\ "T1" \in depende_de["T2"]
    /\ tareas["T1"].estado \in {"pendiente", "en_progreso"}

---------------------------------------------------------------------------
\* C23: completed and cancelled are terminal: no step (complete, assign,
\* task update) changes the status of a task that is completed or
\* cancelled.
C23_CompletedAndCancelledTerminal ==
    [][\A t \in TaskIds :
          tareas[t].estado \in {"completada", "cancelada"}
              => tareas'[t].estado = tareas[t].estado]_vars

---------------------------------------------------------------------------
\* C24: after every add_dependency call and every task update that sets the
\* depends-on links, each edge (row or link) connects two tasks of the same
\* case; add_dependency between tasks of different cases answers with the
\* cross-case error and inserts nothing.
C24_EdgesStayWithinOneCase ==
    [][/\ \A e \in AllEdges' :
             tareas'[e[1]].expediente = tareas'[e[2]].expediente
       /\ \A user \in Users, pk \in TaskIds, depends_on_id \in TaskIds :
             ( /\ response'.op = "add_dependency"
               /\ tareas[pk].expediente # tareas[depends_on_id].expediente
               /\ MayModify(user, pk)
               /\ add_dependency(user, pk, depends_on_id) )
             => /\ response'.status = 400
                /\ response'.detail = "cross_case"
                /\ task_dependencies' = task_dependencies
      ]_vars

---------------------------------------------------------------------------
(* Four tasks in one case: T2 and T3 get depends-on links to T1 and T2     *)
(* through the task update, then rows are added for T4 and T1.             *)

InitDiamond ==
    /\ tareas = [InitTareas EXCEPT !["T4"].expediente = "E1"]
    /\ depende_de = [t \in TaskIds |-> {}]
    /\ task_dependencies = {}
    /\ expedientes = InitExpedientes
    /\ transiciones = <<>>
    /\ notifications = EmptyBag
    /\ response = Response("none", 0, "")
    /\ requests = [r \in RequestIds |-> NoRequest]
    /\ documentos = InitDocumentos

NextDiamond ==
    \/ \E pk \in {"T2", "T3"}, data \in [depende_de : SUBSET {"T1", "T2"}] :
          task_update("U1", pk, data)
    \/ \E pk \in {"T4", "T1"}, depends_on_id \in {"T3", "T2"} :
          add_dependency("U1", pk, depends_on_id)

SpecDiamond == InitDiamond /\ [][NextDiamond]_vars

\* C25: the cycle check of add_dependency has no false positives: a call is
\* refused as circular only if the task is reachable from depends_on through
\* the edges recorded; in particular it is accepted when depends_on sits
\* above a diamond that does not contain the task.
C25_CircularOnlyIfReachable ==
    [][\A user \in Users, pk \in TaskIds, depends_on_id \in TaskIds :
          ( /\ response'.op = "add_dependency"
            /\ response'.detail = "circular"
            /\ add_dependency(user, pk, depends_on_id) )
          => pk \in Reachable(AllEdges, depends_on_id)]_vars

---------------------------------------------------------------------------
(* Case E1 near the end of its workflow: the case update puts it in S2,    *)
(* transitions are proposed, and two complete requests run at the same     *)
(* time on its last open tasks.                                            *)

NextFinal ==
    \/ expediente_update("U1", "E1", [estado_workflow |-> "S2"])
    \/ \E hacia_estado \in {"S4", "S5"}, hacia_departamento \in Departments :
          transition("U1", "E1", hacia_estado, hacia_departamento, "motivo")
    \/ \E r \in RequestIds, pk \in {"T1", "T2"} :
          complete_get_object(r, "U1", pk)
    \/ \E r \in RequestIds :
          complete_atomic_block(r)

SpecFinal == InitWorkflow /\ [][NextFinal]_vars

\* C26: final states are terminal: a proposed transition or a completion
\* (with its automatic advance) on a case whose current state is final
\* neither changes the case's state nor appends a transition record for it.
C26_FinalStatesTerminal ==
    [][\A e \in Expedientes :
          ( /\ WorkflowState[expedientes[e].estado_workflow].is_final
            /\ response'.op \in {"transition", "complete"} )
          => /\ expedientes'[e].estado_workflow = expedientes[e].estado_workflow
             /\ \A i \in 1..Len(transiciones') :
                   transiciones'[i].expediente = e => i <= Len(transiciones)]_vars

---------------------------------------------------------------------------
\* C27: after every step (assign, task update, complete) each task that has
\* an assigned user has one of the task's own department; assign with a
\* user of another department answers with the department error and leaves
\* the assignment as it was.
C27_AssigneeBelongsToTaskDepartment ==
    [][/\ \A t \in TaskIds :
             tareas'[t].usuario_asignado # None
                 => User[tareas'[t].usuario_asignado].department
                        = tareas'[t].departamento
       /\ \A user \in Users, pk \in TaskIds, user_id \in Users :
             ( /\ response'.op = "assign"
               /\ pk \in TaskViewSet_get_queryset(user)
               /\ can_assign_task(user, pk)
               /\ User[user_id].department # tareas[pk].departamento
               /\ assign(user, pk, user_id) )
             => /\ response'.status = 400
                /\ response'.detail = "department_mismatch"
                /\ tareas'[pk].usuario_asignado = tareas[pk].usuario_asignado
      ]_vars

---------------------------------------------------------------------------
(* The tasks of case E1 are closed through complete or through the task    *)
(* update; T2 gets an assignee and a dependency on T1 in between.          *)

NextUpdate ==
    \/ \E pk \in {"T1", "T2"}, data \in [estado : {"completada", "pendiente"}] :
          task_update("U1", pk, data)
    \/ \E pk \in {"T1", "T2"} :
          complete("U1", pk, Absent)
    \/ assign("U1", "T2", "U1")
    \/ \E data \in [depende_de : SUBSET {"T1"}] :
          task_update("U1", "T2", data)

SpecUpdate == InitWorkflow /\ [][NextUpdate]_vars

\* C28: a task update that sets the status of a task to completed has the
\* cascading effects of complete(task): one notification for every
\* dependent that becomes startable, and, when it closes the last open task
\* of a case whose state is non-final and has a later state, the automatic
\* advance of the case.
C28_UpdateToCompletedCascades ==
    [][\A user \in Users, pk \in TaskIds :
          ( /\ response' = Response("task_update", 200, "ok")
            /\ tareas[pk].estado # "completada"
            /\ task_update(user, pk, [estado |-> "completada"]) )
          => LET e   == tareas[pk].expediente
                 cur == expedientes[e].estado_workflow
             IN  /\ notifications' = notifications
                        (+) SetToBag(check_dependent_tasks(tareas', depende_de', pk))
                 /\ ( /\ OpenTasks(e) \subseteq {pk}
                      /\ ~WorkflowState[cur].is_final
                      /\ HasLaterState(cur) )
                        => AutomaticAdvance(e, cur)]_vars

---------------------------------------------------------------------------
(* TaskViewSet.dependencies: GET tasks/<pk>/dependencies/                  *)
(* Task.dependency_forward are the rows whose `task` is the Task, and      *)
(* Task.dependency_backward the rows whose `depends_on` is the Task.  A    *)
(* filter through either relation joins Task with the rows on that column  *)
(* and returns the Task of every joined row that passes the condition.     *)

RECURSIVE joined_tasks(_, _)
joined_tasks(rows, column) ==
    IF rows = {} THEN <<>>
    ELSE LET rank(t) == CHOOSE i \in 1..Len(TaskOrder) : TaskOrder[i] = t
             row == CHOOSE x \in rows :
                        \A y \in rows :
                            \/ rank(x[1]) < rank(y[1])
                            \/ (x[1] = y[1] /\ rank(x[2]) <= rank(y[2]))
         IN  <<row[column]>> \o joined_tasks(rows \ {row}, column)

\* Task.objects.filter(dependency_forward__task=task)
filter_dependency_forward__task(task) ==
    joined_tasks({row \in task_dependencies : row[1] = task}, 1)

\* Task.objects.filter(dependency_backward__depends_on=task)
filter_dependency_backward__depends_on(task) ==
    joined_tasks({row \in task_dependencies : row[2] = task}, 2)

dependencies(user, pk) ==
    LET found == pk \in TaskViewSet_get_queryset(user)
    IN  /\ response' =
              [op |-> "dependencies",
               status |-> IF found THEN 200 ELSE 404,
               detail |-> IF found THEN "ok" ELSE "not_found",
               dependencies |->
                   IF found THEN filter_dependency_forward__task(pk) ELSE <<>>,
               dependents |->
                   IF found THEN filter_dependency_backward__depends_on(pk) ELSE <<>>]
        /\ UNCHANGED <<tareas, depende_de, task_dependencies, expedientes,
                       transiciones, notifications, requests, documentos>>

NextQuery ==
    \/ \E pk \in {"T1", "T2", "T3"}, depends_on_id \in {"T1", "T2", "T3"} :
          add_dependency("U1", pk, depends_on_id)
    \/ \E user \in Users, pk \in TaskIds :
          dependencies(user, pk)

SpecQuery == Init /\ [][NextQuery]_vars

\* C29: the dependencies query on a task T the caller sees lists under
\* 'dependencies' exactly the tasks T has a row to, and under 'dependents'
\* exactly the tasks that have a row to T.
C29_QueryReturnsNeighbours ==
    [][\A user \in Users, pk \in TaskIds :
          ( /\ response'.op = "dependencies"
            /\ pk \in TaskViewSet_get_queryset(user)
            /\ dependencies(user, pk) )
          => /\ {response'.dependencies[i] : i \in DOMAIN response'.dependencies}
                    = {row[2] : row \in {x \in task_dependencies : x[1] = pk}}
             /\ {response'.dependents[i] : i \in DOMAIN response'.dependents}
                    = {row[1] : row \in {x \in task_dependencies : x[2] = pk}}]_vars

---------------------------------------------------------------------------
(* Document versions: DocumentViewSet.create_version,                      *)
(* POST documents/<pk>/create_version/                                     *)

\* The users holding a UserPermission row on resource 'documento'.
UserPermission_documento == {"U2"}

DocumentIds == 1..Len(documentos)

DocumentViewSet_get_queryset(user) ==
    IF User[user].is_superuser
       \/ User[user].role \in {"department_head", "supervisor", "admin"}
    THEN DocumentIds
    ELSE {d \in DocumentIds :
             expedientes[documentos[d].expediente].departamento_actual
                 = User[user].department}

CanManageDocuments_has_permission(user) ==
    User[user].is_superuser \/ user \in UserPermission_documento

CanManageDocuments_has_object_permission(user, d) ==
    \/ User[user].is_superuser
    \/ expedientes[documentos[d].expediente].departamento_actual = User[user].department
    \/ User[user].role \in {"department_head", "supervisor"}
    \/ documentos[d].uploaded_by = user

\* Document.get_latest_version: a version with a parent asks its parent; a
\* version without parent answers its child of greatest version number
\* (the first row in id order among equals), or itself when it has none.
RECURSIVE get_latest_version(_, _)
get_latest_version(docs, d) ==
    IF docs[d].parent_document # NoDocument
    THEN get_latest_version(docs, docs[d].parent_document)
    ELSE LET children == {c \in 1..Len(docs) : docs[c].parent_document = d}
         IN  IF children = {} THEN d
             ELSE CHOOSE c \in children :
                      \A o \in children :
                          \/ docs[c].version > docs[o].version
                          \/ (docs[c].version = docs[o].version /\ c <= o)

\* Document.create_new_version
create_new_version(docs, d, uploaded_by) ==
    LET saved == [docs EXCEPT ![d].status = "reemplazado"]
    IN  Append(saved,
               [expediente |-> docs[d].expediente,
                version |-> docs[d].version + 1,
                parent_document |-> get_latest_version(saved, d),
                status |-> "activo",
                uploaded_by |-> uploaded_by])

create_version_outcome(user, pk, file) ==
    IF ~CanManageDocuments_has_permission(user) THEN <<403, "permission_denied">>
    ELSE IF pk \notin DocumentViewSet_get_queryset(user) THEN <<404, "not_found">>
    ELSE IF ~CanManageDocuments_has_object_permission(user, pk)
    THEN <<403, "permission_denied">>
    ELSE IF file = Absent THEN <<400, "no_file">>
    \* DocumentType.validate_file raises django's ValidationError, which the
    \* handler's `except` (rest_framework's ValidationError) does not catch
    ELSE IF file = "invalid" THEN <<500, "validation_error">>
    ELSE <<201, "created">>

create_version(user, pk, file) ==
    LET out == create_version_outcome(user, pk, file)
    IN  /\ out[1] = 201 => Len(documentos) < MaxDocuments
        /\ documentos' = IF out[1] = 201
                         THEN create_new_version(documentos, pk, user)
                         ELSE documentos
        /\ response' = Response("create_version", out[1], out[2])
        /\ UNCHANGED <<tareas, depende_de, task_dependencies, expedientes,
                       transiciones, notifications, requests>>

NextDocuments ==
    \E user \in Users, pk \in 1..MaxDocuments, file \in {Absent, "invalid", "valid"} :
        create_version(user, pk, file)

SpecDocuments == Init /\ [][NextDocuments]_vars

\* C30: after any sequence of create_version calls on the versions of one
\* document, get_latest_version() of every version is a version with the
\* highest version number, the version numbers are pairwise distinct, and
\* at most one version has status 'activo'.
C30_VersionChainConsistent ==
    /\ \A d \in DocumentIds :
          \A o \in DocumentIds :
              documentos[get_latest_version(documentos, d)].version
                  >= documentos[o].version
    /\ \A d, o \in DocumentIds :
          d # o => documentos[d].version # documentos[o].version
    /\ Cardinality({d \in DocumentIds : documentos[d].status = "activo"}) <= 1

=============================================================================
